---- MODULE Spec2Model ----
(***************************************************************************)
(* gobincache: decides whether an installed Go binary is stale relative to *)
(* the module version and go version declared in go.mod.                   *)
(*                                                                         *)
(* The model follows the revision of the program that checks both the      *)
(* module version and the toolchain version (requiresInstall,              *)
(* needsUpdateForGo, versionFromGoMod), from the reading of go.mod down to *)
(* the process exit code.                                                  *)
(*                                                                         *)
(* Strings whose characters the program inspects (go versions, module      *)
(* versions) are sequences of one-character strings; module paths are only *)
(* compared for equality and stay TLA+ strings.                            *)
(***************************************************************************)
EXTENDS Integers, Sequences, FiniteSets, TLC

VARIABLES gomodFile, binFile, pc, opened, gomod, info, ret, cmdErr, exit

vars == <<gomodFile, binFile, pc, opened, gomod, info, ret, cmdErr, exit>>

(***************************************************************************)
(* Bounds of the model.                                                    *)
(***************************************************************************)
\* the largest number of require entries of a go.mod
MaxRequire == 2
\* go minor versions range over 9..MaxMinor (one and two digits)
MaxMinor == 10

(***************************************************************************)
(* Characters and strings.                                                 *)
(***************************************************************************)
Digits == {"0", "1", "2", "3", "4", "5", "6", "7", "8", "9"}

Lower == {"a", "b", "c", "d", "e", "f", "g", "h", "i", "j", "k", "l", "m",
          "n", "o", "p", "q", "r", "s", "t", "u", "v", "w", "x", "y", "z"}

Upper == {"A", "B", "C", "D", "E", "F", "G", "H", "I", "J", "K", "L", "M",
          "N", "O", "P", "Q", "R", "S", "T", "U", "V", "W", "X", "Y", "Z"}

\* the characters a version string may hold, in byte order
Ascii == <<"+", "-", ".",
           "0", "1", "2", "3", "4", "5", "6", "7", "8", "9",
           "A", "B", "C", "D", "E", "F", "G", "H", "I", "J", "K", "L", "M",
           "N", "O", "P", "Q", "R", "S", "T", "U", "V", "W", "X", "Y", "Z",
           "a", "b", "c", "d", "e", "f", "g", "h", "i", "j", "k", "l", "m",
           "n", "o", "p", "q", "r", "s", "t", "u", "v", "w", "x", "y", "z">>

Ord(c) == CHOOSE i \in 1..Len(Ascii) : Ascii[i] = c

\* s[i:] of Go, with i counted from 0
From(s, i) == SubSeq(s, i + 1, Len(s))

\* s[:i] of Go
Upto(s, i) == SubSeq(s, 1, i)

HasPrefix(s, p) == Len(s) >= Len(p) /\ Upto(s, Len(p)) = p

\* strings.TrimPrefix
TrimPrefix(s, p) == IF HasPrefix(s, p) THEN From(s, Len(p)) ELSE s

\* x < y of Go strings: byte-wise lexical order
RECURSIVE StrLess(_, _)
StrLess(x, y) ==
    IF y = <<>> THEN FALSE
    ELSE IF x = <<>> THEN TRUE
    ELSE IF x[1] /= y[1] THEN Ord(x[1]) < Ord(y[1])
    ELSE StrLess(Tail(x), Tail(y))

(***************************************************************************)
(* golang.org/x/mod/semver, as the program uses it: IsValid and Compare.   *)
(***************************************************************************)
NoParse == [ok |-> FALSE, t |-> <<>>, rest |-> <<>>]

\* the number of leading digits of v
RECURSIVE DigitRun(_)
DigitRun(v) ==
    IF v = <<>> \/ v[1] \notin Digits THEN 0 ELSE 1 + DigitRun(Tail(v))

parseInt(v) ==
    IF v = <<>> \/ v[1] \notin Digits THEN NoParse
    ELSE LET i == DigitRun(v)
         IN  IF v[1] = "0" /\ i /= 1 THEN NoParse
             ELSE [ok |-> TRUE, t |-> Upto(v, i), rest |-> From(v, i)]

isIdentChar(c) == c \in Upper \cup Lower \cup Digits \cup {"-"}

isNum(v) == DigitRun(v) = Len(v)

isBadNum(v) == isNum(v) /\ Len(v) > 1 /\ v[1] = "0"

\* the scan of parsePrerelease from 0-based position i, the current
\* identifier starting at 0-based position start
RECURSIVE prereleaseScan(_, _, _)
prereleaseScan(v, i, start) ==
    IF i < Len(v) /\ v[i + 1] /= "+"
    THEN IF ~isIdentChar(v[i + 1]) /\ v[i + 1] /= "." THEN NoParse
         ELSE IF v[i + 1] = "."
              THEN IF start = i \/ isBadNum(SubSeq(v, start + 1, i))
                   THEN NoParse
                   ELSE prereleaseScan(v, i + 1, i + 1)
              ELSE prereleaseScan(v, i + 1, start)
    ELSE IF start = i \/ isBadNum(SubSeq(v, start + 1, i)) THEN NoParse
         ELSE [ok |-> TRUE, t |-> Upto(v, i), rest |-> From(v, i)]

parsePrerelease(v) ==
    IF v = <<>> \/ v[1] /= "-" THEN NoParse ELSE prereleaseScan(v, 1, 1)

RECURSIVE buildScan(_, _, _)
buildScan(v, i, start) ==
    IF i < Len(v)
    THEN IF ~isIdentChar(v[i + 1]) /\ v[i + 1] /= "." THEN NoParse
         ELSE IF v[i + 1] = "."
              THEN IF start = i THEN NoParse
                   ELSE buildScan(v, i + 1, i + 1)
              ELSE buildScan(v, i + 1, start)
    ELSE IF start = i THEN NoParse
         ELSE [ok |-> TRUE, t |-> Upto(v, i), rest |-> From(v, i)]

parseBuild(v) ==
    IF v = <<>> \/ v[1] /= "+" THEN NoParse ELSE buildScan(v, 1, 1)

BadVersion ==
    [ok |-> FALSE, major |-> <<>>, minor |-> <<>>, patch |-> <<>>,
     prerelease |-> <<>>, build |-> <<>>]

\* the tail of parse, after the patch number
parseSuffix(major, minor, patch, rest) ==
    LET pre == IF rest /= <<>> /\ rest[1] = "-"
               THEN parsePrerelease(rest)
               ELSE [ok |-> TRUE, t |-> <<>>, rest |-> rest]
        bld == IF pre.ok /\ pre.rest /= <<>> /\ pre.rest[1] = "+"
               THEN parseBuild(pre.rest)
               ELSE [ok |-> pre.ok, t |-> <<>>, rest |-> pre.rest]
    IN  IF ~pre.ok \/ ~bld.ok \/ bld.rest /= <<>> THEN BadVersion
        ELSE [ok |-> TRUE, major |-> major, minor |-> minor, patch |-> patch,
              prerelease |-> pre.t, build |-> bld.t]

\* semver's parse: vMAJOR[.MINOR[.PATCH[-PRERELEASE][+BUILD]]]
parse(v) ==
    IF v = <<>> \/ v[1] /= "v" THEN BadVersion
    ELSE LET ma == parseInt(Tail(v))
         IN  IF ~ma.ok THEN BadVersion
             ELSE IF ma.rest = <<>>
             THEN [BadVersion EXCEPT !.ok = TRUE, !.major = ma.t,
                                     !.minor = <<"0">>, !.patch = <<"0">>]
             ELSE IF ma.rest[1] /= "." THEN BadVersion
             ELSE LET mi == parseInt(Tail(ma.rest))
                  IN  IF ~mi.ok THEN BadVersion
                      ELSE IF mi.rest = <<>>
                      THEN [BadVersion EXCEPT !.ok = TRUE, !.major = ma.t,
                                              !.minor = mi.t,
                                              !.patch = <<"0">>]
                      ELSE IF mi.rest[1] /= "." THEN BadVersion
                      ELSE LET pa == parseInt(Tail(mi.rest))
                           IN  IF ~pa.ok THEN BadVersion
                               ELSE parseSuffix(ma.t, mi.t, pa.t, pa.rest)

IsValid(v) == parse(v).ok

\* decimal strings without leading zeros: shorter is smaller
compareInt(x, y) ==
    IF x = y THEN 0
    ELSE IF Len(x) < Len(y) THEN -1
    ELSE IF Len(x) > Len(y) THEN 1
    ELSE IF StrLess(x, y) THEN -1
    ELSE 1

\* the length of the identifier that starts v (up to the next dot)
RECURSIVE identLen(_)
identLen(v) == IF v = <<>> \/ v[1] = "." THEN 0 ELSE 1 + identLen(Tail(v))

RECURSIVE comparePrereleaseLoop(_, _)
comparePrereleaseLoop(x, y) ==
    IF x /= <<>> /\ y /= <<>>
    THEN LET x1 == Tail(x)
             y1 == Tail(y)
             dx == Upto(x1, identLen(x1))
             dy == Upto(y1, identLen(y1))
         IN  IF dx /= dy
             THEN IF isNum(dx) /= isNum(dy)
                  THEN (IF isNum(dx) THEN -1 ELSE 1)
                  ELSE IF isNum(dx) /\ Len(dx) < Len(dy) THEN -1
                  ELSE IF isNum(dx) /\ Len(dx) > Len(dy) THEN 1
                  ELSE IF StrLess(dx, dy) THEN -1
                  ELSE 1
             ELSE comparePrereleaseLoop(From(x1, identLen(x1)),
                                        From(y1, identLen(y1)))
    ELSE IF x = <<>> THEN -1 ELSE 1

comparePrerelease(x, y) ==
    IF x = y THEN 0
    ELSE IF x = <<>> THEN 1
    ELSE IF y = <<>> THEN -1
    ELSE comparePrereleaseLoop(x, y)

\* semver.Compare: an invalid version is less than a valid one
Compare(v, w) ==
    LET pv == parse(v)
        pw == parse(w)
    IN  IF ~pv.ok /\ ~pw.ok THEN 0
        ELSE IF ~pv.ok THEN -1
        ELSE IF ~pw.ok THEN 1
        ELSE IF compareInt(pv.major, pw.major) /= 0
             THEN compareInt(pv.major, pw.major)
        ELSE IF compareInt(pv.minor, pw.minor) /= 0
             THEN compareInt(pv.minor, pw.minor)
        ELSE IF compareInt(pv.patch, pw.patch) /= 0
             THEN compareInt(pv.patch, pw.patch)
        ELSE comparePrerelease(pv.prerelease, pw.prerelease)

(***************************************************************************)
(* The files the program reads.  A go version is written from its numbers  *)
(* (major 1): "1.MINOR", "1.MINOR.PATCH" or the release candidate          *)
(* "1.MINORrc1" in go.mod, the same after "go" in a binary.                *)
(***************************************************************************)
DigitSeq == <<"0", "1", "2", "3", "4", "5", "6", "7", "8", "9">>

\* the decimal digits of n
RECURSIVE Itoa(_)
Itoa(n) ==
    IF n < 10 THEN <<DigitSeq[n + 1]>>
    ELSE Itoa(n \div 10) \o <<DigitSeq[(n % 10) + 1]>>

Minors == 9..MaxMinor

Patches == {0, 1}

Rc1 == <<"r", "c", "1">>

GoVers ==
    {g \in [minor : Minors, hasPatch : BOOLEAN, patch : Patches,
            pre : {<<>>, Rc1}] :
        /\ (g.hasPatch \/ g.patch = 0)
        /\ (g.pre = <<>> \/ ~g.hasPatch)}

DefaultGo == [minor |-> 9, hasPatch |-> FALSE, patch |-> 0, pre |-> <<>>]

\* the text of a go version
GoText(g) ==
    <<"1", ".">> \o Itoa(g.minor)
        \o (IF g.hasPatch THEN <<".">> \o Itoa(g.patch) ELSE <<>>)
        \o g.pre

V120 == <<"v", "1", ".", "2", ".", "0">>

V110 == <<"v", "1", ".", "1", ".", "0">>

V120Incompatible ==
    V120 \o <<"+", "i", "n", "c", "o", "m", "p", "a", "t", "i", "b", "l", "e">>

Devel == <<"(", "d", "e", "v", "e", "l", ")">>

ManifestPaths == {"example.com/tool", "example.com/other"}

ManifestVersions == {V120, V110}

BinaryPaths == {"example.com/tool", "example.com/renamed-tool"}

BinaryVersions == {V120, V120Incompatible, Devel}

Requirement == [Path : ManifestPaths, Version : ManifestVersions]

RequireLists == UNION {[1..n -> Requirement] : n \in 0..MaxRequire}

\* go.mod on disk: unreadable, not a go.mod, or a go.mod with an optional
\* go directive and its require entries in file order
GoModFiles ==
    {[status |-> s, hasGo |-> FALSE, go |-> DefaultGo, require |-> <<>>] :
        s \in {"unreadable", "malformed"}}
    \cup
    {f \in [status : {"ok"}, hasGo : BOOLEAN, go : GoVers,
            require : RequireLists] : f.hasGo \/ f.go = DefaultGo}

\* the file at binPath: absent, not a Go binary, or a Go binary built by a
\* released toolchain (go) or by a development toolchain (devel)
BinFiles ==
    {[status |-> s, devel |-> FALSE, go |-> DefaultGo,
      path |-> "example.com/tool", version |-> V120] :
        s \in {"missing", "corrupt"}}
    \cup
    {f \in [status : {"ok"}, devel : BOOLEAN, go : GoVers,
            path : BinaryPaths, version : BinaryVersions] :
        ~f.devel \/ f.go = DefaultGo}

(***************************************************************************)
(* The library calls of requiresInstall.                                   *)
(***************************************************************************)
NoGo == [present |-> FALSE, Version |-> <<>>]

NoGoMod == [Go |-> NoGo, Require |-> <<>>]

NoInfo ==
    [GoVersion |-> <<>>, Main |-> [Path |-> "", Version |-> <<>>]]

\* os.ReadFile("go.mod")
osReadFile(f) == IF f.status = "unreadable" THEN "open go.mod" ELSE "nil"

\* modfile.Parse: File.Go is nil when the file has no go directive; no
\* bytes parse as the empty file
modfileParse(f) ==
    IF f.status = "malformed" THEN [err |-> "syntax", file |-> NoGoMod]
    ELSE IF f.status = "unreadable" THEN [err |-> "nil", file |-> NoGoMod]
    ELSE [err |-> "nil",
          file |-> [Go |-> IF f.hasGo
                           THEN [present |-> TRUE, Version |-> GoText(f.go)]
                           ELSE NoGo,
                    Require |-> f.require]]

\* BuildInfo.GoVersion as runtime.Version wrote it
RuntimeVersion(f) ==
    IF f.devel THEN <<"d", "e", "v", "e", "l">>
    ELSE <<"g", "o">> \o GoText(f.go)

\* buildinfo.ReadFile(binPath)
buildinfoReadFile(f) ==
    IF f.status = "missing" THEN [err |-> "ErrNotExist", info |-> NoInfo]
    ELSE IF f.status = "corrupt"
    THEN [err |-> "unrecognized file format", info |-> NoInfo]
    ELSE [err |-> "nil",
          info |-> [GoVersion |-> RuntimeVersion(f),
                    Main |-> [Path |-> f.path, Version |-> f.version]]]

(***************************************************************************)
(* requiresInstall and its helpers.  A result is the pair the function     *)
(* returns, (needsInstall, err), or a nil pointer dereference.             *)
(***************************************************************************)
Ret(n, e) == [panic |-> FALSE, needsInstall |-> n, err |-> e]

NilDereference == [panic |-> TRUE, needsInstall |-> FALSE, err |-> "nil"]

\* a bug: the error of os.ReadFile is dropped
readModfileErrIgnored(e) == "nil"

\* the error of os.ReadFile, wrapped
readModfileErr(e) == IF e /= "nil" THEN "reading modfile" ELSE "nil"

\* the error of modfile.Parse, wrapped
parseModfileErr(e) == IF e /= "nil" THEN "parsing modfile" ELSE "nil"

\* a bug: a binary that does not exist is an error like any other
buildinfoErrRetNoNotExist(e) == Ret(FALSE, "reading binary buildinfo")

\* what requiresInstall returns when buildinfo.ReadFile fails with e
buildinfoErrRet(e) ==
    IF e = "ErrNotExist" THEN Ret(TRUE, "nil")
    ELSE Ret(FALSE, "reading binary buildinfo")

modGoVersion(gm) == <<"v">> \o gm.Go.Version

\* a bug: the "go" of the binary's go version is kept
binGoVersionUntrimmed(inf) == <<"v">> \o inf.GoVersion

binGoVersion(inf) == <<"v">> \o TrimPrefix(inf.GoVersion, <<"g", "o">>)

\* a bug: any other go than the one of go.mod is out of date
binOlderOrNewer(bin, mod) == Compare(bin, mod) /= 0

\* the binary was built by an older go than go.mod asks for
binOlder(bin, mod) == Compare(bin, mod) = -1

\* a bug: the versions are compared without being validated
needsUpdateForGoUnchecked(gm, inf) ==
    IF ~gm.Go.present THEN NilDereference
    ELSE Ret(binOlder(binGoVersion(inf), modGoVersion(gm)), "nil")

needsUpdateForGo(gm, inf) ==
    IF ~gm.Go.present THEN NilDereference
    ELSE IF ~IsValid(modGoVersion(gm))
    THEN Ret(FALSE, "parsing go.mod go version")
    ELSE IF ~IsValid(binGoVersion(inf))
    THEN Ret(FALSE, "parsing binary go version")
    ELSE Ret(binOlder(binGoVersion(inf), modGoVersion(gm)), "nil")

NotFound == [found |-> FALSE, Path |-> "", Version |-> <<>>]

\* the first require entry of the binary's module path, from entry i on
RECURSIVE requireFrom(_, _, _)
requireFrom(req, i, path) ==
    IF i > Len(req) THEN NotFound
    ELSE IF req[i].Path = path
    THEN [found |-> TRUE, Path |-> req[i].Path, Version |-> req[i].Version]
    ELSE requireFrom(req, i + 1, path)

\* the last require entry of the binary's module path, up to entry i
RECURSIVE requireUpTo(_, _, _)
requireUpTo(req, i, path) ==
    IF i < 1 THEN NotFound
    ELSE IF req[i].Path = path
    THEN [found |-> TRUE, Path |-> req[i].Path, Version |-> req[i].Version]
    ELSE requireUpTo(req, i - 1, path)

\* a bug: the loop does not stop at the first match
versionFromGoModLast(gm, binaryModule) ==
    requireUpTo(gm.Require, Len(gm.Require), binaryModule.Path)

versionFromGoMod(gm, binaryModule) == requireFrom(gm.Require, 1, binaryModule.Path)

\* a bug: a module path that go.mod does not require is an error
notFoundRetError == Ret(FALSE, "module not found in modfile")

\* no require entry has the binary's module path
notFoundRet == Ret(TRUE, "nil")

\* a bug: module versions are compared as semantic versions
versionDiffersSemver(binVersion, modVersion) ==
    Compare(binVersion, modVersion) /= 0

versionDiffers(binVersion, modVersion) == binVersion /= modVersion

\* requiresInstall once go.mod is parsed and the build info is read
requiresInstall(gm, inf) ==
    LET goUpdate == needsUpdateForGo(gm, inf)
        mod == versionFromGoMod(gm, inf.Main)
    IN  IF goUpdate.panic THEN NilDereference
        ELSE IF goUpdate.err /= "nil" THEN Ret(FALSE, goUpdate.err)
        ELSE IF goUpdate.needsInstall THEN Ret(TRUE, "nil")
        ELSE IF ~mod.found THEN notFoundRet
        ELSE Ret(versionDiffers(inf.Main.Version, mod.Version), "nil")

(***************************************************************************)
(* cmd's RunE and main: the error of the command and the exit code.        *)
(***************************************************************************)
ExitOK == 0

ExitError == 1

ExitInstall == 2

\* an unrecovered panic ends a Go process with status 2
ExitPanic == 2

NoErr == [kind |-> "nil", code |-> ExitOK]

RunEErr(r) ==
    IF r.err /= "nil" THEN [kind |-> "error", code |-> ExitOK]
    ELSE IF r.needsInstall THEN [kind |-> "exitCodeError", code |-> ExitInstall]
    ELSE NoErr

exitCode(e) ==
    IF e.kind = "nil" THEN ExitOK
    ELSE IF e.kind = "exitCodeError" THEN e.code
    ELSE ExitError

(***************************************************************************)
(* The run of the program.                                                 *)
(***************************************************************************)
Init ==
    /\ gomodFile \in GoModFiles
    /\ binFile \in BinFiles
    /\ pc = "start"
    /\ opened = <<>>
    /\ gomod = NoGoMod
    /\ info = NoInfo
    /\ ret = Ret(FALSE, "nil")
    /\ cmdErr = NoErr
    /\ exit = ExitOK

\* b, err := os.ReadFile("go.mod")
ReadFile ==
    /\ pc = "start"
    /\ opened' = Append(opened, "go.mod")
    /\ LET e == readModfileErr(osReadFile(gomodFile))
       IN  IF e /= "nil"
           THEN pc' = "returned" /\ ret' = Ret(FALSE, e)
           ELSE pc' = "parse" /\ UNCHANGED ret
    /\ UNCHANGED <<gomodFile, binFile, gomod, info, cmdErr, exit>>

\* gomod, err := modfile.Parse("", b, nil)
Parse ==
    /\ pc = "parse"
    /\ LET p == modfileParse(gomodFile)
           e == parseModfileErr(p.err)
       IN  IF e /= "nil"
           THEN pc' = "returned" /\ ret' = Ret(FALSE, e) /\ UNCHANGED gomod
           ELSE pc' = "buildinfo" /\ gomod' = p.file /\ UNCHANGED ret
    /\ UNCHANGED <<gomodFile, binFile, opened, info, cmdErr, exit>>

\* info, err := buildinfo.ReadFile(binPath)
ReadBuildInfo ==
    /\ pc = "buildinfo"
    /\ opened' = Append(opened, "binary")
    /\ LET r == buildinfoReadFile(binFile)
       IN  IF r.err /= "nil"
           THEN pc' = "returned" /\ ret' = buildinfoErrRet(r.err)
                /\ UNCHANGED info
           ELSE pc' = "resolve" /\ info' = r.info /\ UNCHANGED ret
    /\ UNCHANGED <<gomodFile, binFile, gomod, cmdErr, exit>>

\* the go version check and the module version check
Resolve ==
    /\ pc = "resolve"
    /\ LET r == requiresInstall(gomod, info)
       IN  IF r.panic
           THEN pc' = "panic" /\ UNCHANGED ret
           ELSE pc' = "returned" /\ ret' = r
    /\ UNCHANGED <<gomodFile, binFile, opened, gomod, info, cmdErr, exit>>

\* RunE turns the result into the command's error
RunE ==
    /\ pc = "returned"
    /\ cmdErr' = RunEErr(ret)
    /\ pc' = "main"
    /\ UNCHANGED <<gomodFile, binFile, opened, gomod, info, ret, exit>>

\* main exits with the code of the error
Main ==
    /\ pc = "main"
    /\ exit' = exitCode(cmdErr)
    /\ pc' = "exited"
    /\ UNCHANGED <<gomodFile, binFile, opened, gomod, info, ret, cmdErr>>

\* the runtime ends the process on the nil pointer dereference
RuntimePanic ==
    /\ pc = "panic"
    /\ exit' = ExitPanic
    /\ pc' = "crashed"
    /\ UNCHANGED <<gomodFile, binFile, opened, gomod, info, ret, cmdErr>>

Next ==
    \/ ReadFile
    \/ Parse
    \/ ReadBuildInfo
    \/ Resolve
    \/ RunE
    \/ Main
    \/ RuntimePanic

Spec == Init /\ [][Next]_vars

(***************************************************************************)
(* What the claims speak of, read from the files on disk and not from what *)
(* the program computed.                                                   *)
(***************************************************************************)
\* go.mod was read and parsed
GoModParsed == gomodFile.status = "ok"

\* a parsed go.mod that declares a go version
HasToolchain == GoModParsed /\ gomodFile.hasGo

BinPresent == binFile.status = "ok"

\* the go version of go.mod is a release: "v" + version is a semantic version
ModGoValid == HasToolchain /\ gomodFile.go.pre = <<>>

\* the binary was built by a release: "v" + version without "go" is a
\* semantic version
BinGoValid == BinPresent /\ ~binFile.devel /\ binFile.go.pre = <<>>

PatchOf(g) == IF g.hasPatch THEN g.patch ELSE 0

\* release a is older than release b, by their numbers
GoBefore(a, b) ==
    \/ a.minor < b.minor
    \/ (a.minor = b.minor /\ PatchOf(a) < PatchOf(b))

\* the require entries of the binary's module path
Matching ==
    {i \in 1..Len(gomodFile.require) :
        gomodFile.require[i].Path = binFile.path}

FirstMatch ==
    gomodFile.require[CHOOSE i \in Matching : \A j \in Matching : i <= j]

LastMatch ==
    gomodFile.require[CHOOSE i \in Matching : \A j \in Matching : j <= i]

\* requiresInstall is over: it returned or it panicked
Decided == pc \notin {"start", "parse", "buildinfo", "resolve"}

Returned == pc \in {"returned", "main", "exited"}

NeedsInstall == Returned /\ ret = Ret(TRUE, "nil")

UpToDate == Returned /\ ret = Ret(FALSE, "nil")

Failed == Returned /\ ret.err /= "nil" /\ ~ret.needsInstall

ToolchainError ==
    /\ Failed
    /\ ret.err \in {"parsing go.mod go version", "parsing binary go version"}

(***************************************************************************)
(* The claims.                                                             *)
(***************************************************************************)

\* C1: with a parsed go.mod, whatever its go directive (valid, invalid or
\* absent) and its require entries, a binary that does not exist gives
\* NeedsInstall (true, nil): the build info is never read, and the go version
\* check and the module lookup never decide.
C1_MissingNeedsInstall ==
    (GoModParsed /\ binFile.status = "missing" /\ Decided)
        => (NeedsInstall /\ info = NoInfo)

\* C1 witness: a go.mod without go directive, no binary, exit code 2.
C1_Witness ==
    /\ GoModParsed
    /\ ~gomodFile.hasGo
    /\ binFile.status = "missing"
    /\ pc = "exited"
    /\ exit = ExitInstall

\* C2: the binary's module version is the string go.mod requires for its
\* module path and the binary was built by a release equal to or newer than
\* the release of go.mod: the result is UpToDate (false, nil).
C2_MatchingIsUpToDate ==
    (/\ ModGoValid
     /\ BinGoValid
     /\ ~GoBefore(binFile.go, gomodFile.go)
     /\ Matching /= {}
     /\ FirstMatch.Version = binFile.version
     /\ Decided)
        => UpToDate

\* C2 witness: same module version, built by a newer go, exit code 0.
C2_Witness ==
    /\ ModGoValid
    /\ BinGoValid
    /\ GoBefore(gomodFile.go, binFile.go)
    /\ Matching /= {}
    /\ FirstMatch.Version = binFile.version
    /\ pc = "exited"
    /\ exit = ExitOK

\* C3 as stated: the binary's module version differs, as a string, from the
\* version go.mod (with a go directive) requires for its module path: the
\* result is NeedsInstall.
C3_Original ==
    (/\ HasToolchain
     /\ BinPresent
     /\ Matching /= {}
     /\ FirstMatch.Version /= binFile.version
     /\ Decided)
        => NeedsInstall

\* C3 amended: the binary's module version differs, as a string, from the
\* required one: the result is NeedsInstall when both go versions are
\* semantic versions, and the go version error otherwise.
C3_DifferentNeedsInstall ==
    (/\ HasToolchain
     /\ BinPresent
     /\ Matching /= {}
     /\ FirstMatch.Version /= binFile.version
     /\ Decided)
        => IF ModGoValid /\ BinGoValid THEN NeedsInstall ELSE ToolchainError

\* C3 witness: v1.2.0+incompatible against a required v1.2.0 (equal as
\* semantic versions, different strings), go version not older, exit code 2.
C3_Witness ==
    /\ ModGoValid
    /\ BinGoValid
    /\ ~GoBefore(binFile.go, gomodFile.go)
    /\ Matching /= {}
    /\ FirstMatch.Version = V120
    /\ binFile.version = V120Incompatible
    /\ pc = "exited"
    /\ exit = ExitInstall

\* C4: the binary was built by a release older than the release of go.mod:
\* the result is NeedsInstall, whether its module version matches, differs or
\* its module path is not required at all.
C4_OlderGoNeedsInstall ==
    (/\ ModGoValid
     /\ BinGoValid
     /\ GoBefore(binFile.go, gomodFile.go)
     /\ Decided)
        => NeedsInstall

\* C4 witness: go1.9 against go 1.10 or later, module path not required,
\* exit code 2.
C4_Witness ==
    /\ ModGoValid
    /\ BinGoValid
    /\ binFile.go.minor = 9
    /\ gomodFile.go.minor > 9
    /\ Matching = {}
    /\ pc = "exited"
    /\ exit = ExitInstall

\* C5: the binary's module path matches no require entry and the go version
\* check raised no error: the result is NeedsInstall, not an error.
C5_NotFoundNeedsInstall ==
    (/\ ModGoValid
     /\ BinGoValid
     /\ Matching = {}
     /\ Decided)
        => NeedsInstall

\* C5 witness: go version not older, module path not required although
\* go.mod has require entries, exit code 2.
C5_Witness ==
    /\ ModGoValid
    /\ BinGoValid
    /\ ~GoBefore(binFile.go, gomodFile.go)
    /\ gomodFile.require /= <<>>
    /\ Matching = {}
    /\ pc = "exited"
    /\ exit = ExitInstall

\* C6 as stated: every run ends with exit code 0, 1 or 2: 0 exactly when the
\* verdict is UpToDate, 2 exactly when it is NeedsInstall, 1 exactly when an
\* error occurred.
C6_ExitCodeLossless ==
    pc \in {"exited", "crashed"}
        => /\ exit \in {ExitOK, ExitError, ExitInstall}
           /\ (exit = ExitOK <=> UpToDate)
           /\ (exit = ExitInstall <=> NeedsInstall)
           /\ (exit = ExitError <=> Failed)

\* C7: go.mod cannot be read or does not parse: the run ends with that error
\* and no verdict, whatever the binary, and the binary is never opened; the
\* binary is only opened after go.mod was parsed.
C7_ManifestErrorFirst ==
    /\ (gomodFile.status = "unreadable" /\ Decided)
           => (Failed /\ ret.err = "reading modfile" /\ opened = <<"go.mod">>)
    /\ (gomodFile.status = "malformed" /\ Decided)
           => (Failed /\ ret.err = "parsing modfile" /\ opened = <<"go.mod">>)
    /\ (opened /= <<>>) => opened[1] = "go.mod"
    /\ (Len(opened) > 1) => GoModParsed

\* C7 witness: go.mod cannot be read and the binary does not exist: exit
\* code 1.
C7_Witness ==
    /\ gomodFile.status = "unreadable"
    /\ binFile.status = "missing"
    /\ pc = "exited"
    /\ exit = ExitError

\* C8 as stated: a go.mod without go directive and a binary that exists: the
\* run fails with an error value, never a verdict, never a crash.
C8_NoGoDirectiveIsError ==
    (GoModParsed /\ ~gomodFile.hasGo /\ BinPresent /\ Decided) => Failed

\* C9: go.mod declares a go version, the binary exists, and one of the two go
\* versions is not a semantic version once normalized: the run fails with the
\* go version error and gives no verdict, whatever the module versions.
C9_InvalidGoVersionIsError ==
    (/\ HasToolchain
     /\ BinPresent
     /\ ~(ModGoValid /\ BinGoValid)
     /\ Decided)
        => (ToolchainError /\ (pc = "exited" => exit = ExitError))

\* C9 witness: a binary built by a development toolchain, a release in
\* go.mod, module versions that differ: exit code 1.
C9_Witness ==
    /\ ModGoValid
    /\ BinPresent
    /\ binFile.devel
    /\ Matching /= {}
    /\ FirstMatch.Version /= binFile.version
    /\ pc = "exited"
    /\ exit = ExitError

\* go.mod with only entry e as its require list
OnlyEntry(e) == [gomod EXCEPT !.Require = <<[Path |-> e.Path, Version |-> e.Version]>>]

\* C10 as stated: several require entries have the binary's module path: the
\* result is the one a go.mod holding only the LAST of them gives.
C10_Original ==
    (/\ HasToolchain
     /\ BinPresent
     /\ Cardinality(Matching) > 1
     /\ Returned)
        => ret = requiresInstall(OnlyEntry(LastMatch), info)

\* C10 amended: several require entries have the binary's module path: the
\* result is the one a go.mod holding only the FIRST of them gives; when the
\* go version check passes, it is NeedsInstall exactly when the binary's
\* module version differs from the version of the first entry.
C10_FirstMatchWins ==
    (/\ HasToolchain
     /\ BinPresent
     /\ Cardinality(Matching) > 1
     /\ Decided)
        => /\ Returned
           /\ ret = requiresInstall(OnlyEntry(FirstMatch), info)
           /\ (ModGoValid /\ BinGoValid /\ ~GoBefore(binFile.go, gomodFile.go))
                  => ret = Ret(binFile.version /= FirstMatch.Version, "nil")

\* C10 witness: the first entry requires v1.1.0, the last v1.2.0, the binary
\* is v1.2.0 and its go version is not older: exit code 2.
C10_Witness ==
    /\ ModGoValid
    /\ BinGoValid
    /\ ~GoBefore(binFile.go, gomodFile.go)
    /\ Cardinality(Matching) > 1
    /\ FirstMatch.Version = V110
    /\ LastMatch.Version = V120
    /\ binFile.version = V120
    /\ pc = "exited"
    /\ exit = ExitInstall

====
